---- MODULE Spec2Model ----
(* Model of src/young_platform.py: the YPClient request pipeline            *)
(* (authorization gate -> _request -> _sign_request -> send ->              *)
(* _process_response).  One action per method of the class; every action   *)
(* runs the whole call, and records what the call did in the state.        *)
EXTENDS Integers, Sequences, FiniteSets, TLC

(* ------------------------------------------------------------------ *)
(* Bounds of the model and constants of the program                    *)
(* ------------------------------------------------------------------ *)
MaxTime == 1
MaxBodyLen == 2
RecvWindow == 10
DefaultDepth == 10

(* ------------------------------------------------------------------ *)
(* Python values                                                       *)
(* ------------------------------------------------------------------ *)
\* Optional[str]: None, or a string (possibly the empty string).
NoneStr == [some |-> FALSE, v |-> ""]
SomeStr(s) == [some |-> TRUE, v |-> s]
\* Python truthiness of an Optional[str]: None and "" are falsy.
Truthy(o) == o.some /\ o.v # ""

\* JSON scalars of a body: an int or a str.
IntV(n) == [t |-> "int", n |-> n, s |-> ""]
StrV(s) == [t |-> "str", n |-> 0, s |-> s]
\* str(value)
str(v) == IF v.t = "int" THEN ToString(v.n) ELSE v.s

\* A dict is its items in insertion order: a sequence of [k, v], keys unique.
Item(k, v) == [k |-> k, v |-> v]
Keys(d) == {d[i].k : i \in 1..Len(d)}
HasKey(d, k) == k \in Keys(d)
Lookup(d, k) == d[CHOOSE i \in 1..Len(d) : d[i].k = k].v
\* d[k] = v: an existing key keeps its position, a new key is appended.
DictSet(d, k, v) ==
    IF HasKey(d, k)
    THEN [i \in 1..Len(d) |-> IF d[i].k = k THEN Item(k, v) ELSE d[i]]
    ELSE Append(d, Item(k, v))
\* d.update(other)
RECURSIVE update(_, _)
update(d, other) ==
    IF other = <<>> THEN d
    ELSE update(DictSet(d, other[1].k, other[1].v), Tail(other))

\* Optional dict (the params / json arguments, default None).
NoDict == [some |-> FALSE, d |-> <<>>]
SomeDict(d) == [some |-> TRUE, d |-> d]

(* ------------------------------------------------------------------ *)
(* String order of the keys: Python compares str by code point         *)
(* ------------------------------------------------------------------ *)
KeyChars == [
    recvWindow |-> <<114, 101, 99, 118, 87, 105, 110, 100, 111, 119>>,
    timestamp |-> <<116, 105, 109, 101, 115, 116, 97, 109, 112>>,
    trade |-> <<116, 114, 97, 100, 101>>,
    market |-> <<109, 97, 114, 107, 101, 116>>,
    side |-> <<115, 105, 100, 101>>,
    type |-> <<116, 121, 112, 101>>,
    volume |-> <<118, 111, 108, 117, 109, 101>>,
    rate |-> <<114, 97, 116, 101>>,
    orderId |-> <<111, 114, 100, 101, 114, 73, 100>>,
    Side |-> <<83, 105, 100, 101>>,
    pair |-> <<112, 97, 105, 114>>,
    depth |-> <<100, 101, 112, 116, 104>>]

RECURSIVE LexLess(_, _)
LexLess(a, b) ==
    IF b = <<>> THEN FALSE
    ELSE IF a = <<>> THEN TRUE
    ELSE IF Head(a) < Head(b) THEN TRUE
    ELSE IF Head(a) > Head(b) THEN FALSE
    ELSE LexLess(Tail(a), Tail(b))
KeyLess(k1, k2) == LexLess(KeyChars[k1], KeyChars[k2])

(* ------------------------------------------------------------------ *)
(* json.dumps / json.loads over a token text                           *)
(* ------------------------------------------------------------------ *)
JPunct(c) == [t |-> "punct", s |-> c, n |-> 0]
JStr(s) == [t |-> "str", s |-> s, n |-> 0]
JNum(n) == [t |-> "num", s |-> "", n |-> n]
JLit(v) == IF v.t = "int" THEN JNum(v.n) ELSE JStr(v.s)
JVal(tok) == IF tok.t = "num" THEN IntV(tok.n) ELSE StrV(tok.s)

RECURSIVE dumps_items(_)
dumps_items(d) ==
    IF d = <<>> THEN <<>>
    ELSE <<JStr(d[1].k), JPunct(":"), JLit(d[1].v)>>
         \o (IF Len(d) > 1 THEN <<JPunct(",")>> ELSE <<>>)
         \o dumps_items(Tail(d))
json_dumps(d) == <<JPunct("{")>> \o dumps_items(d) \o <<JPunct("}")>>

ParseError == [ok |-> FALSE, d |-> <<>>]
RECURSIVE loads_items(_, _)
loads_items(toks, acc) ==
    IF Len(toks) < 3 THEN ParseError
    ELSE IF toks[1].t # "str" \/ toks[2] # JPunct(":") \/ toks[3].t = "punct"
    THEN ParseError
    ELSE LET acc2 == DictSet(acc, toks[1].s, JVal(toks[3])) IN
         IF Len(toks) = 3 THEN [ok |-> TRUE, d |-> acc2]
         ELSE IF toks[4] # JPunct(",") THEN ParseError
         ELSE loads_items(SubSeq(toks, 5, Len(toks)), acc2)
json_loads(toks) ==
    IF Len(toks) < 2 THEN ParseError
    ELSE IF toks[1] # JPunct("{") \/ toks[Len(toks)] # JPunct("}") THEN ParseError
    ELSE IF Len(toks) = 2 THEN [ok |-> TRUE, d |-> <<>>]
    ELSE loads_items(SubSeq(toks, 2, Len(toks) - 1), <<>>)

\* Optional text (a request or response body).
NoText == [some |-> FALSE, toks |-> <<>>]
SomeText(toks) == [some |-> TRUE, toks |-> toks]
TextTruthy(x) == x.some /\ x.toks # <<>>

(* ------------------------------------------------------------------ *)
(* State                                                               *)
(* ------------------------------------------------------------------ *)
VARIABLES
    api_key,     \* self._api_key, fixed at construction
    api_secret,  \* self._api_secret, fixed at construction
    clock,       \* time.time(), in whole seconds
    call,        \* the last method called and its arguments
    events,      \* what the last call did, in order: request (the dispatcher
                 \* is entered), sign (the signer is entered), signed (the
                 \* signer is left), send, process
    wire,        \* what the last call handed to Session.send, if anything
    sig,         \* what _sign_request computed in the last call, if it ran
    response,    \* the Response the last call got, if any
    outcome,     \* how the last call ended: its return value or the exception
    prevSig,     \* one earlier signing run, kept to compare runs with each other
    pc           \* "idle": no call in progress; "done": a call has just ended

vars == <<api_key, api_secret, clock, call, events, wire, sig, response,
          outcome, prevSig, pc>>

BaseUrl == "https://api.youngplatform.com/api/v3/"

\* A path: the endpoint and the query parameters formatted into it.
Path(ep, q) == [ep |-> ep, q |-> q]

NoDigest == [some |-> FALSE, key |-> "", msg |-> <<>>]
NoHeaders == [contentType |-> NoneStr, apiKey |-> NoneStr, hmac |-> NoDigest]

\* requests.Request(method, url, params=..., json=...)
Request(method, path, params, json) ==
    [method |-> method, base |-> BaseUrl, path |-> path, params |-> params,
     json |-> json, data |-> NoText, headers |-> NoHeaders]

\* Request.prepare(): data wins over json; a json body sets Content-Type
\* unless the header is already there (header names are case-insensitive).
prepare(r) ==
    LET useJson == ~TextTruthy(r.data) /\ r.json.some
        body == IF TextTruthy(r.data) THEN r.data
                ELSE IF r.json.some THEN SomeText(json_dumps(r.json.d))
                ELSE NoText
        headers == IF useJson /\ ~r.headers.contentType.some
                   THEN [r.headers EXCEPT !.contentType = SomeStr("application/json")]
                   ELSE r.headers
    IN [some |-> TRUE, method |-> r.method, base |-> r.base, path |-> r.path,
        params |-> r.params, headers |-> headers, body |-> body]
NoWire == [some |-> FALSE, method |-> "", base |-> "", path |-> Path("", <<>>),
           params |-> NoDict, headers |-> NoHeaders, body |-> NoText]

(* ------------------------------------------------------------------ *)
(* _sign_request                                                       *)
(* ------------------------------------------------------------------ *)
\* sorted(signature_payload.items()): by key, the keys of a dict being unique.
RECURSIVE insert(_, _)
insert(s, it) ==
    IF s = <<>> THEN <<it>>
    ELSE IF KeyLess(it.k, s[1].k) THEN <<it>> \o s
    ELSE <<s[1]>> \o insert(Tail(s), it)
\* A signer that forgets to sort.
sorted_unsorted(items) == items
RECURSIVE sorted(_)
sorted(items) ==
    IF items = <<>> THEN <<>>
    ELSE insert(sorted(Tail(items)), items[1])

\* The loop of lines 56-57: key + '=' + str(value) + '&' for every key.
RECURSIVE join_items(_)
join_items(d) ==
    IF d = <<>> THEN <<>>
    ELSE <<d[1].k, "=", str(d[1].v), "&">> \o join_items(Tail(d))
\* A signer that leaves the final '&' in place.
strip_last_kept(s) == s
\* Line 58: [:-1]
strip_last(s) == SubSeq(s, 1, Len(s) - 1)
signature_payload_ordered_str(payload) == strip_last(join_items(sorted(payload)))

\* hmac.new(secret, msg, 'sha512').hexdigest(): an ideal keyed digest, equal
\* for equal (key, message) and different otherwise.
hmac_new(key, msg) == [some |-> TRUE, key |-> key, msg |-> msg]

\* A signer that lets the fixed keys win over the body's.
signature_payload_fixed_last(r, ts) ==
    LET prepared == prepare(r)
        fixed == <<Item("recvWindow", IntV(RecvWindow)), Item("timestamp", IntV(ts))>>
    IN IF TextTruthy(prepared.body)
       THEN update(update(fixed, json_loads(prepared.body.toks).d), fixed)
       ELSE fixed
\* A signer that also signs the query parameters of the path.
signature_payload_with_query(r, ts) ==
    LET prepared == prepare(r)
        fixed == <<Item("recvWindow", IntV(RecvWindow)), Item("timestamp", IntV(ts))>>
    IN IF TextTruthy(prepared.body)
       THEN update(update(fixed, r.path.q), json_loads(prepared.body.toks).d)
       ELSE update(fixed, r.path.q)
\* Lines 46-51: the fixed keys, then the body's items merged over them.
signature_payload(r, ts) ==
    LET prepared == prepare(r)
        fixed == <<Item("recvWindow", IntV(RecvWindow)), Item("timestamp", IntV(ts))>>
    IN IF TextTruthy(prepared.body)
       THEN update(fixed, json_loads(prepared.body.toks).d)
       ELSE fixed

NoSig == [some |-> FALSE, ts |-> 0, path |-> Path("", <<>>), params |-> NoDict,
          json |-> NoDict, payload |-> <<>>, canon |-> <<>>, hmac |-> NoDigest]

\* A signer that forgets the apiKey header.
sign_request_no_key_header(r, ts) ==
    LET payload == signature_payload(r, ts)
        canon == signature_payload_ordered_str(payload)
    IN IF ~api_secret.some
       THEN [raised |-> TRUE, request |-> r, sig |-> NoSig]
       ELSE LET signature == hmac_new(api_secret.v, canon) IN
            [raised |-> FALSE,
             request |-> [r EXCEPT
                 !.headers = [contentType |-> SomeStr("application/json"),
                              apiKey |-> NoneStr,
                              hmac |-> signature],
                 !.data = SomeText(json_dumps(payload))],
             sig |-> [some |-> TRUE, ts |-> ts, path |-> r.path,
                      params |-> r.params, json |-> r.json, payload |-> payload,
                      canon |-> canon, hmac |-> signature]]
\* A signer that sets the headers but leaves the caller's body in place.
sign_request_keeps_body(r, ts) ==
    LET payload == signature_payload(r, ts)
        canon == signature_payload_ordered_str(payload)
    IN IF ~api_secret.some
       THEN [raised |-> TRUE, request |-> r, sig |-> NoSig]
       ELSE LET signature == hmac_new(api_secret.v, canon) IN
            [raised |-> FALSE,
             request |-> [r EXCEPT
                 !.headers = [contentType |-> SomeStr("application/json"),
                              apiKey |-> SomeStr(api_key.v),
                              hmac |-> signature]],
             sig |-> [some |-> TRUE, ts |-> ts, path |-> r.path,
                      params |-> r.params, json |-> r.json, payload |-> payload,
                      canon |-> canon, hmac |-> signature]]
\* _sign_request(request) at time ts.  self._api_secret.encode() raises
\* AttributeError when the secret is None, before the request is touched.
sign_request(r, ts) ==
    LET payload == signature_payload(r, ts)
        canon == signature_payload_ordered_str(payload)
    IN IF ~api_secret.some
       THEN [raised |-> TRUE, request |-> r, sig |-> NoSig]
       ELSE LET signature == hmac_new(api_secret.v, canon) IN
            [raised |-> FALSE,
             request |-> [r EXCEPT
                 !.headers = [contentType |-> SomeStr("application/json"),
                              apiKey |-> SomeStr(api_key.v),
                              hmac |-> signature],
                 !.data = SomeText(json_dumps(payload))],
             sig |-> [some |-> TRUE, ts |-> ts, path |-> r.path,
                      params |-> r.params, json |-> r.json, payload |-> payload,
                      canon |-> canon, hmac |-> signature]]

(* ------------------------------------------------------------------ *)
(* _process_response                                                   *)
(* ------------------------------------------------------------------ *)
Returns(d) == [kind |-> "return", data |-> d]
Raise(e) == [kind |-> e, data |-> <<>>]
NoOutcome == [kind |-> "none", data |-> <<>>]
NoResponse == [some |-> FALSE, status |-> 0, body |-> <<>>]

\* Response.raise_for_status() raises for 400 <= status < 600.
raises_for_status(status) == status >= 400 /\ status < 600

\* A normalizer that looks at the status before it parses.
process_response_status_first(resp) ==
    LET parsed == json_loads(resp.body) IN
    IF raises_for_status(resp.status) THEN Raise("HTTPError")
    ELSE IF parsed.ok THEN Returns(parsed.d)
    ELSE Raise("ValueError")

process_response(resp) ==
    LET parsed == json_loads(resp.body) IN
    IF parsed.ok THEN Returns(parsed.d)
    ELSE IF raises_for_status(resp.status) THEN Raise("HTTPError")
    ELSE Raise("ValueError")

(* ------------------------------------------------------------------ *)
(* _request, _get, _post, _delete                                      *)
(* ------------------------------------------------------------------ *)
\* What the network does with one send: the reply, or a transport failure.
Statuses == {200, 400, 500}
ReplyBodies == {json_dumps(<<Item("error", StrV("bad request"))>>),
                <<>>,
                <<JPunct("<html>")>>}
Replies == [fail : {FALSE}, status : Statuses, body : ReplyBodies]
           \cup {[fail |-> TRUE, status |-> 0, body |-> <<>>]}

Result(ev, w, s, resp, out) ==
    [events |-> ev, wire |-> w, sig |-> s, response |-> resp, outcome |-> out]

request(method, path, params, json, reply) ==
    LET r0 == Request(method, path, params, json)
        signing == Truthy(api_key)
        s == sign_request(r0, clock)
    IN IF signing /\ s.raised
       THEN Result(<<"request", "sign">>, NoWire, NoSig, NoResponse,
                   Raise("AttributeError"))
       ELSE LET r1 == IF signing THEN s.request ELSE r0
                s1 == IF signing THEN s.sig ELSE NoSig
                ev == IF signing THEN <<"request", "sign", "signed">>
                      ELSE <<"request">>
            IN IF reply.fail
               THEN Result(ev \o <<"send">>, prepare(r1), s1, NoResponse,
                           Raise("ConnectionError"))
               ELSE LET resp == [some |-> TRUE, status |-> reply.status,
                                 body |-> reply.body]
                    IN Result(ev \o <<"send", "process">>, prepare(r1), s1,
                              resp, process_response(resp))

get(path, params, reply) == request("GET", path, params, NoDict, reply)
post(path, params, reply) == request("POST", path, NoDict, params, reply)
delete(path, params, reply) == request("DELETE", path, NoDict, params, reply)

\* A gate that only looks for None, and lets the empty key through.
authentication_required_is_none(res) ==
    IF ~api_key.some
    THEN Result(<<>>, NoWire, NoSig, NoResponse, Raise("TypeError"))
    ELSE res
\* The wrapper of authentication_required: no key, no call.
authentication_required(res) ==
    IF ~Truthy(api_key)
    THEN Result(<<>>, NoWire, NoSig, NoResponse, Raise("TypeError"))
    ELSE res

(* ------------------------------------------------------------------ *)
(* Inputs                                                              *)
(* ------------------------------------------------------------------ *)
ApiKeys == {NoneStr, SomeStr(""), SomeStr("K1")}
ApiSecrets == {NoneStr, SomeStr(""), SomeStr("S1")}
Pairs == {"BTC-EUR", "ETH-EUR"}
Depths == {DefaultDepth}
Sides == {"BUY"}
Volumes == {2}
Rates == {20000}
OrderIds == {7}

\* Bodies handed to _post and _delete directly: every insertion order of up
\* to MaxBodyLen distinct keys, the two fixed keys of the signer among them.
BodyKeys == {"Side", "timestamp", "recvWindow"}
BodyVal(k) ==
    IF k = "Side" THEN StrV("BUY")
    ELSE IF k = "timestamp" THEN IntV(42)
    ELSE IntV(99)
KeySeqs ==
    UNION {{ks \in [1..m -> BodyKeys] :
               \A i, j \in 1..m : i # j => ks[i] # ks[j]} : m \in 0..MaxBodyLen}
Bodies == {[i \in 1..Len(ks) |-> Item(ks[i], BodyVal(ks[i]))] : ks \in KeySeqs}
OptBodies == {NoDict} \cup {SomeDict(b) : b \in Bodies}
GetParams == {NoDict, SomeDict(<<Item("pair", StrV("BTC-EUR"))>>)}

AuthMethods == {"get_wallet_balances", "get_open_orders", "place_market_order",
                "place_limit_order", "get_order_status", "cancel_order"}
MarketDataMethods == {"get_markets", "get_ticker", "get_trades", "get_orderbook"}
PublicMethods == AuthMethods \cup MarketDataMethods

(* ------------------------------------------------------------------ *)
(* Init and the actions: one per method                                *)
(* ------------------------------------------------------------------ *)
NoCall == [name |-> "", path |-> Path("", <<>>), body |-> NoDict]

Init ==
    /\ api_key \in ApiKeys
    /\ api_secret \in ApiSecrets
    /\ clock = 0
    /\ call = NoCall
    /\ events = <<>>
    /\ wire = NoWire
    /\ sig = NoSig
    /\ response = NoResponse
    /\ outcome = NoOutcome
    /\ prevSig = NoSig
    /\ pc = "idle"

\* A call runs from start to end: the state records what it did.
Done(name, path, body, res) ==
    /\ pc = "idle"
    /\ pc' = "done"
    /\ call' = [name |-> name, path |-> path, body |-> body]
    /\ \E r \in {res} :
        /\ events' = r.events
        /\ wire' = r.wire
        /\ sig' = r.sig
        /\ response' = r.response
        /\ outcome' = r.outcome
    /\ UNCHANGED <<api_key, api_secret, clock, prevSig>>

\* The caller has the outcome; the client is ready for the next call.  The
\* signing run of the call may be the one kept for comparison.
ReturnToCaller ==
    /\ pc = "done"
    /\ pc' = "idle"
    /\ call' = NoCall
    /\ events' = <<>>
    /\ wire' = NoWire
    /\ sig' = NoSig
    /\ response' = NoResponse
    /\ outcome' = NoOutcome
    /\ prevSig' \in {prevSig} \cup (IF sig.some THEN {sig} ELSE {})
    /\ UNCHANGED <<api_key, api_secret, clock>>

get_markets ==
    \E reply \in Replies :
        LET path == Path("markets", <<>>) IN
        Done("get_markets", path, NoDict, get(path, NoDict, reply))

get_ticker ==
    \E pair \in Pairs, reply \in Replies :
        LET path == Path("ticker", <<Item("pair", StrV(pair))>>) IN
        Done("get_ticker", path, NoDict, get(path, NoDict, reply))

get_trades ==
    \E pair \in Pairs, reply \in Replies :
        LET path == Path("trades", <<Item("pair", StrV(pair))>>) IN
        Done("get_trades", path, NoDict, get(path, NoDict, reply))

get_orderbook ==
    \E pair \in Pairs, depth \in Depths, reply \in Replies :
        LET path == Path("orderbook", <<Item("pair", StrV(pair)),
                                        Item("depth", StrV(ToString(depth)))>>) IN
        Done("get_orderbook", path, NoDict, get(path, NoDict, reply))

get_wallet_balances ==
    \E reply \in Replies :
        LET path == Path("balances", <<>>) IN
        Done("get_wallet_balances", path, NoDict,
             authentication_required(post(path, NoDict, reply)))

get_open_orders ==
    \E pair \in Pairs, reply \in Replies :
        LET path == Path("openorders", <<Item("pair", StrV(pair))>>) IN
        Done("get_open_orders", path, NoDict,
             authentication_required(post(path, NoDict, reply)))

place_market_order ==
    \E side \in Sides, volume \in Volumes, reply \in Replies :
        LET path == Path("placeOrder", <<>>)
            body == SomeDict(<<Item("trade", StrV("BTC")),
                               Item("market", StrV("EUR")),
                               Item("side", StrV(side)),
                               Item("type", StrV("MARKET")),
                               Item("volume", IntV(volume))>>)
        IN Done("place_market_order", path, body,
                authentication_required(post(path, body, reply)))

place_limit_order ==
    \E side \in Sides, volume \in Volumes, rate \in Rates, reply \in Replies :
        LET path == Path("placeOrder", <<>>)
            body == SomeDict(<<Item("trade", StrV("BTC")),
                               Item("market", StrV("EUR")),
                               Item("side", StrV(side)),
                               Item("type", StrV("LIMIT")),
                               Item("volume", IntV(volume)),
                               Item("rate", IntV(rate))>>)
        IN Done("place_limit_order", path, body,
                authentication_required(post(path, body, reply)))

get_order_status ==
    \E existing_order_id \in OrderIds, reply \in Replies :
        LET path == Path("orderbyid",
                         <<Item("orderId", IntV(existing_order_id))>>) IN
        Done("get_order_status", path, NoDict,
             authentication_required(post(path, NoDict, reply)))

cancel_order ==
    \E side \in Sides, orderId \in OrderIds, reply \in Replies :
        LET path == Path("cancelOrder", <<>>)
            body == SomeDict(<<Item("side", StrV(side)),
                               Item("orderId", IntV(orderId))>>)
        IN Done("cancel_order", path, body,
                authentication_required(post(path, body, reply)))

\* The three verb helpers called with arguments of the caller's choosing.
DeleteBodies == {NoDict, SomeDict(<<Item("orderId", IntV(7)),
                                    Item("side", StrV("BUY"))>>)}
call_get ==
    \E params \in GetParams, reply \in Replies :
        LET path == Path("markets", <<>>) IN
        Done("_get", path, NoDict, get(path, params, reply))

call_post ==
    \E body \in OptBodies, reply \in Replies :
        LET path == Path("placeOrder", <<>>) IN
        Done("_post", path, body, post(path, body, reply))

call_delete ==
    \E body \in DeleteBodies, reply \in Replies :
        LET path == Path("cancelOrder", <<>>) IN
        Done("_delete", path, body, delete(path, body, reply))

\* Time passes between calls.
Tick ==
    /\ pc = "idle"
    /\ clock < MaxTime
    /\ clock' = clock + 1
    /\ UNCHANGED <<api_key, api_secret, call, events, wire, sig, response,
                   outcome, prevSig, pc>>

Next ==
    \/ get_markets
    \/ get_ticker
    \/ get_trades
    \/ get_orderbook
    \/ get_wallet_balances
    \/ get_open_orders
    \/ place_market_order
    \/ place_limit_order
    \/ get_order_status
    \/ cancel_order
    \/ call_get
    \/ call_post
    \/ call_delete
    \/ ReturnToCaller
    \/ Tick

Spec == Init /\ [][Next]_vars

(* ------------------------------------------------------------------ *)
(* Properties                                                          *)
(* ------------------------------------------------------------------ *)
Count(ev, e) == Cardinality({i \in 1..Len(ev) : ev[i] = e})
FixedKeys == {"recvWindow", "timestamp"}
\* The body the caller passed, as a dict (no body: no items).
CallBody == IF call.body.some THEN call.body.d ELSE <<>>
ItemSet(d) == {d[i] : i \in 1..Len(d)}
\* The i-th key and value of a canonical string key=value&key=value...
CanonKey(c, i) == c[4 * i - 3]
CanonVal(c, i) == c[4 * i - 1]

\* C1: an authenticated method called on a client with no API key (None or
\* empty) raises the usage error (TypeError), and nothing was done before
\* it: the dispatcher was not entered, nothing was signed, nothing was sent.
C1_GateBeforeIO ==
    (pc = "done" /\ call.name \in AuthMethods /\ ~Truthy(api_key)) =>
        /\ outcome = Raise("TypeError")
        /\ Count(events, "send") = 0
        /\ events = <<>>
        /\ ~wire.some
        /\ ~sig.some
C1_Witness ==
    /\ pc = "done"
    /\ call.name = "cancel_order"
    /\ api_key = SomeStr("")
    /\ outcome.kind = "TypeError"

\* C2: every call that enters the dispatcher performs exactly one send,
\* whatever the configuration of the client.
C2_ExactlyOneSend ==
    (pc = "done" /\ Count(events, "request") = 1) => Count(events, "send") = 1

\* C3: signing occurs only when both a key and a secret are configured: for
\* a client with a key but no secret, or a secret but no key, the signer is
\* never run and no signed request is ever sent.
C3_SignOnlyWithKeyAndSecret ==
    (pc = "done" /\ Truthy(api_key) # Truthy(api_secret)) =>
        /\ Count(events, "sign") = 0
        /\ wire.some => ~wire.headers.hmac.some

\* C4: the normalizer decides by parseability first and status second: a
\* body that is JSON is returned as parsed for every status; a body that is
\* not JSON raises the status error when the status is a failure, and the
\* parse error otherwise; no unparseable body is returned.
ReplyDict == <<Item("error", StrV("bad request"))>>
C4_Normalizer ==
    (pc = "done" /\ response.some) =>
        IF response.body = json_dumps(ReplyDict)
        THEN outcome = Returns(ReplyDict)
        ELSE /\ response.body \in {<<>>, <<JPunct("<html>")>>}
             /\ outcome.kind # "return"
             /\ outcome = IF response.status >= 400 THEN Raise("HTTPError")
                          ELSE Raise("ValueError")
C4_Witness ==
    /\ pc = "done"
    /\ response.some
    /\ response.status = 400
    /\ response.body = json_dumps(ReplyDict)
    /\ outcome = Returns(ReplyDict)

\* The value the canonical string must carry for key k of a signed call.
ExpectedStr(k) ==
    IF HasKey(CallBody, k) THEN str(Lookup(CallBody, k))
    ELSE IF k = "recvWindow" THEN ToString(RecvWindow)
    ELSE ToString(sig.ts)

\* C5: for a body whose keys are disjoint from recvWindow and timestamp, the
\* signed string is key=value for every key of the body plus recvWindow and
\* timestamp, each key once, in strictly ascending order of the key strings,
\* joined by '&', with no trailing separator.
C5_CanonicalString ==
    (pc = "done" /\ sig.some /\ Keys(CallBody) \cap FixedKeys = {}) =>
        LET ks == Keys(CallBody) \cup FixedKeys
            n == Cardinality(ks)
            c == sig.canon
        IN /\ Len(c) = 4 * n - 1
           /\ {CanonKey(c, i) : i \in 1..n} = ks
           /\ \A i \in 1..n :
                /\ c[4 * i - 2] = "="
                /\ CanonVal(c, i) = ExpectedStr(CanonKey(c, i))
           /\ \A i \in 1..(n - 1) :
                /\ c[4 * i] = "&"
                /\ KeyLess(CanonKey(c, i), CanonKey(c, i + 1))
           /\ wire.some => wire.headers.hmac.msg = c
C5_Witness ==
    /\ pc = "done"
    /\ sig.some
    /\ call.name = "place_limit_order"
    /\ sig.canon = <<"market", "=", "EUR", "&", "rate", "=", "20000", "&",
                     "recvWindow", "=", "10", "&", "side", "=", "BUY", "&",
                     "timestamp", "=", "1", "&", "trade", "=", "BTC", "&",
                     "type", "=", "LIMIT", "&", "volume", "=", "2">>

\* Two bodies are the same mapping, whatever the order of their keys.
SameBody(a, b) == a.some = b.some /\ ItemSet(a.d) = ItemSet(b.d)

\* C6: two signing runs of the client with the same body and the same
\* timestamp give the same canonical string and the same hmac header,
\* whatever the insertion order of the body's keys and whatever was called
\* in between.
C6_Deterministic ==
    (pc = "done" /\ sig.some /\ wire.some /\ prevSig.some
        /\ prevSig.ts = sig.ts /\ SameBody(prevSig.json, sig.json)) =>
        /\ prevSig.canon = sig.canon
        /\ prevSig.hmac = wire.headers.hmac
C6_Witness ==
    /\ pc = "done"
    /\ sig.some
    /\ wire.some
    /\ prevSig.some
    /\ prevSig.ts = sig.ts
    /\ SameBody(prevSig.json, sig.json)
    /\ prevSig.json.d # sig.json.d
    /\ prevSig.hmac = wire.headers.hmac

\* The body a call hands to the network when nothing has replaced it.
OriginalBody == IF call.body.some THEN SomeText(json_dumps(call.body.d)) ELSE NoText

\* C7: the dispatcher runs the signer if and only if a key is configured,
\* and the signer has finished before the send.  With a key, every request
\* that is sent carries apiKey = the key, an hmac and content-Type =
\* application/json; without a key, a request is sent with its body
\* unchanged and, for the public methods, with none of these headers.
C7_SignedIffKey ==
    (pc = "done" /\ Count(events, "request") = 1) =>
        /\ Count(events, "sign") = (IF Truthy(api_key) THEN 1 ELSE 0)
        /\ wire.some =>
            IF Truthy(api_key)
            THEN /\ SubSeq(events, 1, 4) = <<"request", "sign", "signed", "send">>
                 /\ wire.headers.apiKey = SomeStr(api_key.v)
                 /\ wire.headers.hmac.some
                 /\ wire.headers.hmac = sig.hmac
                 /\ wire.headers.contentType = SomeStr("application/json")
            ELSE /\ SubSeq(events, 1, 2) = <<"request", "send">>
                 /\ ~wire.headers.apiKey.some
                 /\ ~wire.headers.hmac.some
                 /\ wire.body = OriginalBody
                 /\ call.name \in PublicMethods => wire.headers = NoHeaders
C7_Witness ==
    /\ pc = "done"
    /\ call.name = "get_ticker"
    /\ api_key = SomeStr("K1")
    /\ wire.some
    /\ wire.headers.apiKey = SomeStr("K1")
    /\ wire.headers.hmac.some

\* What was sent, parsed back.
WireDict == json_loads(wire.body.toks)
BodyDefinesFixedKeys == FixedKeys \subseteq Keys(CallBody)
SentIsOriginal == call.body.some /\ ItemSet(WireDict.d) = ItemSet(CallBody)
\* The wire body is the signature payload: the mapping the hmac was computed
\* over, holding recvWindow, timestamp, every pair of the caller's body that
\* the merge keeps, and no other key.
WireIsPayload ==
    /\ wire.body.some
    /\ WireDict = [ok |-> TRUE, d |-> sig.payload]
    /\ Keys(WireDict.d) = Keys(CallBody) \cup FixedKeys
    /\ ItemSet(CallBody) \subseteq ItemSet(WireDict.d)
    /\ Len(sig.canon) = 4 * Len(WireDict.d) - 1
    /\ {<<CanonKey(sig.canon, i), CanonVal(sig.canon, i)>> : i \in 1..Len(WireDict.d)}
         = {<<it.k, str(it.v)>> : it \in ItemSet(WireDict.d)}
    /\ wire.headers.hmac.msg = sig.canon

\* C8 as stated: the wire body of a signed call is the signature payload,
\* and the caller's own body is never what is sent.
C8_WireIsPayloadNeverOriginal ==
    (pc = "done" /\ sig.some /\ wire.some) =>
        /\ WireIsPayload
        /\ ~SentIsOriginal

\* C8 as amended: the wire body of a signed call is the signature payload;
\* it differs from the caller's body unless that body itself defines both
\* recvWindow and timestamp, in which case the two are the same mapping.
C8_WireIsPayload ==
    (pc = "done" /\ sig.some /\ wire.some) =>
        /\ WireIsPayload
        /\ SentIsOriginal <=> (call.body.some /\ BodyDefinesFixedKeys)
C8_Witness ==
    /\ pc = "done"
    /\ sig.some
    /\ wire.some
    /\ call.name = "place_limit_order"
    /\ Keys(WireDict.d) = {"recvWindow", "timestamp", "trade", "market", "side",
                           "type", "volume", "rate"}

\* C9: a body that defines timestamp or recvWindow replaces the fixed value
\* (the captured time, respectively 10) in the signature payload, so the
\* signed string and the wire body both carry the caller's value; a fixed
\* key the body does not define keeps its fixed value.
FixedValue(k) == IF k = "recvWindow" THEN IntV(RecvWindow) ELSE IntV(clock)
C9_BodyOverridesFixed ==
    (pc = "done" /\ sig.some /\ wire.some) =>
        \A k \in FixedKeys :
            LET v == IF HasKey(CallBody, k) THEN Lookup(CallBody, k)
                     ELSE FixedValue(k)
            IN /\ Lookup(sig.payload, k) = v
               /\ Lookup(WireDict.d, k) = v
               /\ \E i \in 1..Len(sig.payload) :
                    /\ CanonKey(sig.canon, i) = k
                    /\ CanonVal(sig.canon, i) = str(v)
C9_Witness ==
    /\ pc = "done"
    /\ sig.some
    /\ wire.some
    /\ clock = 1
    /\ call.body = SomeDict(<<Item("timestamp", IntV(42))>>)
    /\ sig.canon = <<"recvWindow", "=", "10", "&", "timestamp", "=", "42">>
    /\ Lookup(WireDict.d, "timestamp") = IntV(42)

\* C10: a signed call that passes no body signs exactly recvWindow = 10 and
\* timestamp = ts; the query parameters of its path are in neither the
\* signed string nor the wire body, so two such calls at the same timestamp
\* get the same hmac whatever their query parameters.
C10_NoBodySignsFixedOnly ==
    (pc = "done" /\ sig.some /\ wire.some /\ ~call.body.some) =>
        /\ sig.ts = clock
        /\ sig.payload = <<Item("recvWindow", IntV(10)), Item("timestamp", IntV(clock))>>
        /\ sig.canon = <<"recvWindow", "=", "10", "&", "timestamp", "=", ToString(clock)>>
        /\ WireDict = [ok |-> TRUE, d |-> sig.payload]
        /\ (prevSig.some /\ ~prevSig.json.some /\ prevSig.ts = sig.ts) =>
              prevSig.hmac = wire.headers.hmac
C10_Witness ==
    /\ pc = "done"
    /\ sig.some
    /\ wire.some
    /\ call.name = "get_ticker"
    /\ prevSig.some
    /\ ~prevSig.json.some
    /\ prevSig.ts = sig.ts
    /\ prevSig.path.ep = "ticker"
    /\ prevSig.path.q # call.path.q
    /\ prevSig.hmac = wire.headers.hmac
====
